---- MODULE Spec2Model ----
(***************************************************************************)
(* A model of maat_core: the Field / Constraint data model, the penalty    *)
(* objective MaatCore.integrate, MaatCore.constraint_report, the search    *)
(* dispatcher MaatCore.seek, and Diagnostics.report.                       *)
(*                                                                         *)
(* Numbers.  Python floats are modelled by dyadic rationals that floats    *)
(* represent exactly: an attribute of a state, a raw field value and a     *)
(* margin n stand for n / Den; weights and the two coefficients are        *)
(* integers.  integrate multiplies two margins, so its result is carried   *)
(* as a numerator over Den * Den.  On these values every float operation   *)
(* of the code is exact, so the arithmetic below is the code's.            *)
(***************************************************************************)
EXTENDS Integers, Sequences, FiniteSets, TLC

VARIABLES
    core,       \* the MaatCore instance: fields, constraints, safety_lambda, occam_lambda
    last,       \* the latest integrate / constraint_report / Diagnostics.report call and its results
    pc,         \* where the caller is: "idle", "solving" (inside seek's solver), "returned"
    frame,      \* seek's local variables and the running solver's state
    rng,        \* the process-wide numpy generator (np.random)
    trace,      \* what the running seek call did: solver invocations, state_fn calls
    ret,        \* what the latest seek call returned or raised
    earlier     \* an earlier seek call the caller kept: arguments, instance, outcome

vars == <<core, last, pc, frame, rng, trace, ret, earlier>>

----------------------------------------------------------------------------
(* Bounds and number representation *)

Den == 2 * 2 * 2 * 2 * 2 * 2    \* attribute values are multiples of 1/64

MaxFields == 2                  \* longest list of fields
MaxConstraints == 2             \* longest list of constraints

Abs(n) == IF n < 0 THEN -n ELSE n
Max(a, b) == IF a >= b THEN a ELSE b

\* All sequences over S of length at most n.
RECURSIVE SeqsUpTo(_, _)
SeqsUpTo(S, n) ==
    IF n = 0 THEN {<<>>}
    ELSE LET shorter == SeqsUpTo(S, n - 1)
         IN  shorter \cup {Append(q, e) : q \in {r \in shorter : Len(r) = n - 1}, e \in S}

----------------------------------------------------------------------------
(* Caller-supplied data: states, field functions, constraint functions *)

\* The attribute bags a state function fabricates (tests/test_occam.py state_fn):
\* val, dissonance and, optionally, complexity.
States ==
    [val : {32, 38, 40, 41}, dissonance : {0, 16},
     hasComplexity : {TRUE}, complexity : {64}]
    \cup
    [val : {32, 38, 40, 41}, dissonance : {0, 16},
     hasComplexity : {FALSE}, complexity : {0}]

\* Field functions: lambda s: s.dissonance, lambda s: s.val, lambda s: s.complexity
ApplyFieldFn(func, s) ==
    CASE func = "dissonance" -> s.dissonance
      [] func = "val"        -> s.val
      [] func = "complexity" -> s.complexity

\* lambda s: s.complexity raises AttributeError on a state without the attribute.
FieldFnRaises(func, s) == func = "complexity" /\ ~s.hasComplexity

RespectCap == 38    \* the cap of the Respect constraint, in 1/Den
CalmTol == 8        \* the tolerance of the Calm constraint, in 1/Den
BudgetCap == 64     \* the cap of the Budget constraint, in 1/Den

\* Constraint functions (margins): lambda s: cap - s.val, lambda s: tol - s.dissonance,
\* lambda s: cap - s.complexity
ApplyConstraintFn(func, s) ==
    CASE func = "respect" -> RespectCap - s.val
      [] func = "calm"    -> CalmTol - s.dissonance
      [] func = "budget"  -> BudgetCap - s.complexity

\* lambda s: cap - s.complexity raises AttributeError on a state without the attribute.
ConstraintFnRaises(func, s) == func = "budget" /\ ~s.hasComplexity

Fields ==
    { [name |-> "Harmony", func |-> "dissonance", weight |-> 1],
      [name |-> "Gain",    func |-> "val",        weight |-> -2] }

Constraints ==
    { [name |-> "Respect", func |-> "respect", weight |-> 1],
      [name |-> "Muted",   func |-> "respect", weight |-> 0],
      [name |-> "Inverse", func |-> "calm",    weight |-> -1] }

DefaultSafetyLambda == 1000000     \* safety_lambda: float = 1e6

\* The values a caller gives the two coefficients.
SafetyLambdas == {-1, 1, DefaultSafetyLambda}
OccamLambdas == {0, 1}

----------------------------------------------------------------------------
(* Field, Constraint, MaatCore.integrate *)

\* Field.value: float(self.func(state)) * float(self.weight)
FieldValue(f, s) == ApplyFieldFn(f.func, s) * f.weight

\* Mutant: the running total is overwritten, only the last field's value is kept.
RECURSIVE SumFieldsKeepsLast(_, _, _, _)
SumFieldsKeepsLast(fs, s, i, acc) ==
    IF i > Len(fs) THEN acc
    ELSE SumFieldsKeepsLast(fs, s, i + 1, FieldValue(fs[i], s))

\* sum(f.value(state) for f in self.fields): left to right from 0
RECURSIVE SumFields(_, _, _, _)
SumFields(fs, s, i, acc) ==
    IF i > Len(fs) THEN acc
    ELSE SumFields(fs, s, i + 1, acc + FieldValue(fs[i], s))

\* Mutant: the attribute is never found, the default is always taken.
ComplexityAlwaysDefault(s) == 0

\* float(getattr(state, "complexity", 0.0))
Complexity(s) == IF s.hasComplexity THEN s.complexity ELSE 0

\* Mutant: the violation is not squared.
PenaltyTermLinear(c, safety_lambda, s) ==
    LET margin == ApplyConstraintFn(c.func, s)
        v      == Max(0, -margin)
    IN  safety_lambda * v * c.weight

\* Mutant: the penalty is not scaled by safety_lambda.
PenaltyTermUnscaled(c, safety_lambda, s) ==
    LET margin == ApplyConstraintFn(c.func, s)
        v      == Max(0, -margin)
    IN  (v * v) * c.weight

\* Mutant: the sign convention is inverted, a positive margin is penalised.
PenaltyTermWrongSide(c, safety_lambda, s) ==
    LET margin == ApplyConstraintFn(c.func, s)
        v      == Max(0, margin)
    IN  safety_lambda * (v * v) * c.weight

\* One pass of the constraint loop: penalty += safety_lambda * (v * v) * weight
PenaltyTerm(c, safety_lambda, s) ==
    LET margin == ApplyConstraintFn(c.func, s)
        v      == Max(0, -margin)
    IN  safety_lambda * (v * v) * c.weight

RECURSIVE PenaltyLoop(_, _, _, _, _)
PenaltyLoop(cs, safety_lambda, s, i, penalty) ==
    IF i > Len(cs) THEN penalty
    ELSE PenaltyLoop(cs, safety_lambda, s, i + 1,
                     penalty + PenaltyTerm(cs[i], safety_lambda, s))

\* MaatCore.integrate.  total and occam_penalty are over Den, penalty is over
\* Den * Den; the result is their sum as a numerator over Den * Den.
Integrate(c, s) ==
    LET total         == SumFields(c.fields, s, 1, 0)
        occam_penalty == c.occam_lambda * Complexity(s)
        penalty       == PenaltyLoop(c.constraints, c.safety_lambda, s, 1, 0)
    IN  (total + occam_penalty) * Den + penalty

----------------------------------------------------------------------------
(* MaatCore.constraint_report *)

FourDecimals == 10000   \* the :.4f of the hint: units of 1/10000

\* Mutant: the digits after the fourth decimal are cut off instead of rounded.
Format4fTruncated(n) == (n * FourDecimals) \div Den

\* format(x, ".4f") of x = n / Den, n >= 0: the number of 1/10000 units printed.
\* Python rounds the exact binary value correctly, ties to even.
Format4f(n) ==
    LET scaled == n * FourDecimals
        q      == scaled \div Den
        r      == scaled % Den
    IN  IF 2 * r > Den THEN q + 1
        ELSE IF 2 * r = Den THEN q + (q % 2)
        ELSE q

None == [isNone |-> TRUE, amount |-> 0, satisfy |-> ""]

\* f"Adjust system by at least {abs(margin):.4f} to satisfy {c.name}"
Hint(margin, name) == [isNone |-> FALSE, amount |-> Format4f(Abs(margin)), satisfy |-> name]

ReportEntry(c, s) ==
    LET margin == ApplyConstraintFn(c.func, s)
    IN  [constraint |-> c.name,
         margin     |-> margin,
         status     |-> IF margin >= 0 THEN "OK" ELSE "VIOLATION",
         hint       |-> IF margin < 0 THEN Hint(margin, c.name) ELSE None]

RECURSIVE ReportLoop(_, _, _, _)
ReportLoop(cs, s, i, report) ==
    IF i > Len(cs) THEN report
    ELSE ReportLoop(cs, s, i + 1, Append(report, ReportEntry(cs[i], s)))

ConstraintReport(c, s) == ReportLoop(c.constraints, s, 1, <<>>)

----------------------------------------------------------------------------
(* Diagnostics.report *)

\* FieldReport(name, weight, raw_value, weighted_value)
FieldReport(name, weight, raw_value, weighted_value) ==
    [name |-> name, weight |-> weight,
     raw_value |-> raw_value, weighted_value |-> weighted_value]

\* Mutant: the weight is left out of the weighted value.
FieldReportOfUnweighted(f, s) ==
    LET raw == ApplyFieldFn(f.func, s)
    IN  FieldReport(f.name, f.weight, raw, raw)

\* One pass of the loop: raw = float(f.func(state)); weighted = raw * float(f.weight)
FieldReportOf(f, s) ==
    LET raw      == ApplyFieldFn(f.func, s)
        weighted == raw * f.weight
    IN  FieldReport(f.name, f.weight, raw, weighted)

\* Mutant: each report is put in front of the ones before it.
RECURSIVE DiagnosticsLoopPrepends(_, _, _, _)
DiagnosticsLoopPrepends(fs, s, i, out) ==
    IF i > Len(fs) THEN out
    ELSE DiagnosticsLoopPrepends(fs, s, i + 1, <<FieldReportOf(fs[i], s)>> \o out)

\* for f in fields: ... out.append(FieldReport(...))
RECURSIVE DiagnosticsLoop(_, _, _, _)
DiagnosticsLoop(fs, s, i, out) ==
    IF i > Len(fs) THEN out
    ELSE DiagnosticsLoop(fs, s, i + 1, Append(out, FieldReportOf(fs[i], s)))

\* Diagnostics.report(fields, state)
DiagnosticsReport(fs, s) == DiagnosticsLoop(fs, s, 1, <<>>)

----------------------------------------------------------------------------
(* The instance and its callers *)

\* MaatCore.__init__
MaatCore(fields, constraints, safety_lambda, occam_lambda) ==
    [fields        |-> fields,
     constraints   |-> constraints,
     safety_lambda |-> safety_lambda,
     occam_lambda  |-> occam_lambda]

Cores ==
    { MaatCore(fs, cs, sl, ol) :
        fs \in SeqsUpTo(Fields, MaxFields),
        cs \in SeqsUpTo(Constraints, MaxConstraints),
        sl \in SafetyLambdas,
        ol \in OccamLambdas }

NoState == [val |-> 0, dissonance |-> 0, hasComplexity |-> FALSE, complexity |-> 0]

\* What the caller holds of its latest calls: the operation called last, its
\* state argument, the coefficients integrate read, the exception that came out
\* (if any), and the results held: integrate's value, constraint_report's
\* records, and the fields given to Diagnostics.report with its reports.
NoCall ==
    [op |-> "none", state |-> NoState, safety_lambda |-> 0, occam_lambda |-> 0,
     value |-> 0, report |-> <<>>,
     exc |-> "", held |-> {}, fields |-> <<>>, fieldReports |-> <<>>]

\* A caller evaluates core.integrate(s).
DoIntegrate(s) ==
    /\ pc = "idle"
    /\ last' = [NoCall EXCEPT !.op = "integrate", !.state = s,
                               !.safety_lambda = core.safety_lambda,
                               !.occam_lambda = core.occam_lambda,
                               !.value = Integrate(core, s),
                               !.held = {"integrate"}]
    /\ UNCHANGED <<core, pc, frame, rng, trace, ret, earlier>>

\* A caller asks for core.constraint_report(s).
DoConstraintReport(s) ==
    /\ pc = "idle"
    /\ last' = [NoCall EXCEPT !.op = "constraint_report", !.state = s,
                               !.report = ConstraintReport(core, s),
                               !.held = {"constraint_report"}]
    /\ UNCHANGED <<core, pc, frame, rng, trace, ret, earlier>>

\* The caller assigns core.safety_lambda (the reflection loop's *= 2 and /= 1.5).
SetSafetyLambda(v) ==
    /\ pc = "idle"
    /\ v # core.safety_lambda
    /\ core' = [core EXCEPT !.safety_lambda = v]
    /\ UNCHANGED <<last, pc, frame, rng, trace, ret, earlier>>

\* The caller assigns core.occam_lambda.
SetOccamLambda(v) ==
    /\ pc = "idle"
    /\ v # core.occam_lambda
    /\ core' = [core EXCEPT !.occam_lambda = v]
    /\ UNCHANGED <<last, pc, frame, rng, trace, ret, earlier>>

----------------------------------------------------------------------------
(* MaatCore.seek: arguments *)

MaxDim == 2         \* longest x0 sequence
MaxBounds == 2      \* longest bounds list
MaxIter == 2        \* largest iteration cap (maxiter)

Min(a, b) == IF a <= b THEN a ELSE b

\* x0 as numpy sees it: a bare Python / numpy number, or an array-like with a
\* number of dimensions (0: a 0-d array, 1: a flat sequence, 2: a nested one-row
\* sequence) and its elements in order.
BareNumber(v) == [bare |-> TRUE,  ndim |-> 0, vals |-> <<v>>]
ArrayLike(d, q) == [bare |-> FALSE, ndim |-> d, vals |-> q]

X0Shapes(V) ==
    {BareNumber(v) : v \in V}
    \cup {ArrayLike(0, <<v>>) : v \in V}
    \cup {ArrayLike(1, q) : q \in SeqsUpTo(V, MaxDim)}
    \cup {ArrayLike(2, <<v>>) : v \in V}

NoSeed == [isNone |-> TRUE, value |-> 0]
Seed(n) == [isNone |-> FALSE, value |-> n]

BoundPairs == {<<0, 64>>, <<32, 48>>}

SeekCall(x0, S, use_annealing, bounds, maxiter, seed, scalar_compat) ==
    [x0 |-> x0, S |-> S, use_annealing |-> use_annealing, bounds |-> bounds,
     maxiter |-> maxiter, method |-> "L-BFGS-B", seed |-> seed,
     scalar_compat |-> scalar_compat]

\* The calls explored for one seek call at a time.
SeekArgs ==
    { SeekCall(x0, S, ua, b, mi, sd, sc) :
        x0 \in X0Shapes({40}), S \in {0, 1}, ua \in BOOLEAN,
        b \in SeqsUpTo(BoundPairs, MaxBounds), mi \in 1..MaxIter,
        sd \in {NoSeed, Seed(1)}, sc \in BOOLEAN }

\* The calls explored when the caller re-enters seek (a reflection loop).
ReentryArgs ==
    { SeekCall(x0, 0, ua, <<<<0, 64>>>>, MaxIter, sd, TRUE) :
        x0 \in {BareNumber(40), ArrayLike(1, <<40>>)}, ua \in BOOLEAN,
        sd \in {NoSeed, Seed(1), Seed(2)} }

----------------------------------------------------------------------------
(* MaatCore.seek: scalar / vector detection, bounds, objective *)

\* _is_scalar_like
IsScalarLike(v) ==
    IF v.bare THEN TRUE
    ELSE v.ndim = 0 \/ (v.ndim = 1 /\ Len(v.vals) = 1)

\* np.atleast_1d(np.asarray(x0, dtype=float)): the elements; n_dim = its size
X0Arr(x0) == x0.vals
NDim(x0) == Len(X0Arr(x0))

\* Mutant: a single pair is not broadcast.
BroadcastBoundsNone(bounds, n_dim) == bounds

\* b after the broadcast of a single pair to all dimensions
BroadcastBounds(bounds, n_dim) ==
    IF Len(bounds) = 1 /\ n_dim > 1 THEN [i \in 1..n_dim |-> bounds[1]] ELSE bounds

\* The two raise ValueError statements of the bounds handling
BoundsError(bounds, n_dim) ==
    \/ Len(bounds) = 0
    \/ Len(BroadcastBounds(bounds, n_dim)) # n_dim

\* The state_fn argument of seek, called with a float or with an ndarray. seek
\* accepts any callable; the one explored here is piecewise linear, with the
\* shape of the state_fn of tests/test_occam.py (dissonance zero at both ends
\* of [0, 1], complexity growing with x) so that every value stays a multiple
\* of 1/Den. Further coordinates add to the dissonance.
RECURSIVE SumFrom(_, _)
SumFrom(q, i) == IF i > Len(q) THEN 0 ELSE q[i] + SumFrom(q, i + 1)

StateFn(arg) ==
    LET x == arg.x[1]
    IN  [val           |-> x,
         dissonance    |-> Min(x, 64 - x) + SumFrom(arg.x, 2),
         hasComplexity |-> TRUE,
         complexity    |-> 64 + x]

\* Mutant: the vector convention is used whatever x0 is.
ObjectiveArgAlwaysVector(scalar_compat, x0_is_scalar, x_vec) ==
    [kind |-> "ndarray", x |-> x_vec]

\* What objective() hands to state_fn for the candidate x_vec
ObjectiveArg(scalar_compat, x0_is_scalar, x_vec) ==
    IF scalar_compat /\ x0_is_scalar
    THEN [kind |-> "float",   x |-> <<x_vec[1]>>]
    ELSE [kind |-> "ndarray", x |-> x_vec]

\* objective(x_arr): self.integrate(state_fn(...)) with the instance as it is now
Objective(c, scalar_compat, x0_is_scalar, x_vec) ==
    Integrate(c, StateFn(ObjectiveArg(scalar_compat, x0_is_scalar, x_vec)))

----------------------------------------------------------------------------
(* The delegated solvers.  They are library code: what matters here is what *)
(* seek hands them, that they call the objective at candidate points inside *)
(* the bounds, and that the global one draws from the process-wide generator.*)

RngStates == 0..3
NextRng(r) == (r + 1) % Cardinality(RngStates)

\* Mutant: the seed is not applied.
SeedRngIgnored(seed, r) == r

\* np.random.seed(int(seed)) when seed is not None
SeedRng(seed, r) == IF seed.isNone THEN r ELSE seed.value % Cardinality(RngStates)

Step == 16      \* the solvers' grid

Clip(v, pair) == Max(pair[1], Min(v, pair[2]))

\* The local solver's trial points around x: x itself, then x -/+ Step per coordinate.
LocalCandidates(x, b) ==
    <<x>> \o [k \in 1..(2 * Len(x)) |->
                LET i == (k + 1) \div 2
                    d == IF k % 2 = 1 THEN -Step ELSE Step
                IN  [x EXCEPT ![i] = Clip(x[i] + d, b[i])]]

\* The global solver's trial point: one draw per coordinate, inside the bounds.
RECURSIVE DrawPoint(_, _, _, _)
DrawPoint(b, r, i, acc) ==
    IF i > Len(b) THEN acc
    ELSE DrawPoint(b, NextRng(r), i + 1,
                   Append(acc, b[i][1] + (r % 3) * ((b[i][2] - b[i][1]) \div 2)))

RECURSIVE AdvanceRng(_, _)
AdvanceRng(r, n) == IF n = 0 THEN r ELSE AdvanceRng(NextRng(r), n - 1)

\* The first candidate of the least objective value.
RECURSIVE ArgMin(_, _, _, _, _, _)
ArgMin(c, f, cands, i, best, fbest) ==
    IF i > Len(cands) THEN best
    ELSE LET v == Objective(c, f.scalar_compat, f.x0_is_scalar, cands[i])
         IN  IF i = 1 \/ v < fbest
             THEN ArgMin(c, f, cands, i + 1, cands[i], v)
             ELSE ArgMin(c, f, cands, i + 1, best, fbest)

\* The objective calls of one solver iteration, as the solver sees them.
Evaluations(c, f, cands) ==
    { [x     |-> cands[i],
       arg   |-> ObjectiveArg(f.scalar_compat, f.x0_is_scalar, cands[i]),
       safety_lambda |-> c.safety_lambda,
       occam_lambda  |-> c.occam_lambda,
       value |-> Objective(c, f.scalar_compat, f.x0_is_scalar, cands[i])]
      : i \in 1..Len(cands) }

\* OptimizeResult
OptimizeResult(x, fun, success, nit) ==
    [x |-> x, fun |-> fun, success |-> success, nit |-> nit]

NoResult == OptimizeResult(<<>>, 0, FALSE, 0)

----------------------------------------------------------------------------
(* MaatCore.seek: the call *)

NoArgs == SeekCall(BareNumber(0), 0, FALSE, <<>>, 0, NoSeed, TRUE)

NoFrame ==
    [args |-> NoArgs, x0_is_scalar |-> FALSE, n_dim |-> 0, b |-> <<>>,
     scalar_compat |-> TRUE, cur |-> <<>>, nit |-> 0, converged |-> FALSE,
     entry_rng |-> 0]

NoTrace ==
    [invocations |-> <<>>, evals |-> {}, integrateCalls |-> 0,
     solverReturns |-> 0, solverResult |-> NoResult]

NoRet == [kind |-> "none", exc |-> "", by |-> "", result |-> NoResult]

NoEarlier ==
    [set |-> FALSE, args |-> NoArgs, core |-> MaatCore(<<>>, <<>>, 0, 0), ret |-> NoRet,
     entry_rng |-> 0, invocations |-> <<>>, x0_is_scalar |-> FALSE]

InitialTempFactor == 10     \* initial_temp = 10.0 * (1.0 + S)

\* Mutant: the global solver is started from x0, as the local one is.
AnnealingInvocationFromX0(a, b) ==
    [solver |-> "dual_annealing", x0 |-> X0Arr(a.x0), x0ndim |-> Max(1, a.x0.ndim), bounds |-> b,
     initial_temp |-> InitialTempFactor * (1 + a.S), maxiter |-> a.maxiter, method |-> ""]

\* The keyword arguments seek passes to dual_annealing / minimize
AnnealingInvocation(a, b) ==
    [solver |-> "dual_annealing", x0 |-> <<>>, x0ndim |-> 0, bounds |-> b,
     initial_temp |-> InitialTempFactor * (1 + a.S), maxiter |-> a.maxiter, method |-> ""]

MinimizeInvocation(a, b) ==
    [solver |-> "minimize", x0 |-> X0Arr(a.x0), x0ndim |-> Max(1, a.x0.ndim), bounds |-> b,
     initial_temp |-> 0, maxiter |-> a.maxiter, method |-> a.method]

\* Mutant: the mode flag is not consulted.
DispatchAlwaysLocal(a, b) == MinimizeInvocation(a, b)

\* Which solver the `if use_annealing:` statement calls
Dispatch(a, b) == IF a.use_annealing THEN AnnealingInvocation(a, b) ELSE MinimizeInvocation(a, b)

\* `return dual_annealing(...)` / `return minimize(...)`: the solver's object as is
SeekResult(res) == res

\* seek up to the solver call: detection, normalisation, bounds handling, and
\* either a ValueError or the call of the chosen solver.
SeekEnter(a) ==
    /\ pc = "idle"
    /\ LET x0_is_scalar == IsScalarLike(a.x0)
           n_dim        == NDim(a.x0)
           b            == BroadcastBounds(a.bounds, n_dim)
       IN  IF BoundsError(a.bounds, n_dim)
           THEN /\ pc' = "returned"
                /\ ret' = [kind |-> "raise", exc |-> "ValueError", by |-> "seek",
                           result |-> NoResult]
                /\ frame' = [NoFrame EXCEPT !.args = a, !.x0_is_scalar = x0_is_scalar,
                                            !.n_dim = n_dim, !.scalar_compat = a.scalar_compat,
                                            !.entry_rng = rng]
                /\ trace' = NoTrace
                /\ rng' = rng
           ELSE /\ pc' = "solving"
                /\ ret' = NoRet
                /\ frame' = [args |-> a, x0_is_scalar |-> x0_is_scalar, n_dim |-> n_dim,
                             b |-> b, scalar_compat |-> a.scalar_compat,
                             cur |-> <<>>, nit |-> 0, converged |-> FALSE,
                             entry_rng |-> rng]
                /\ trace' = [NoTrace EXCEPT !.invocations = <<Dispatch(a, b)>>]
                /\ rng' = IF a.use_annealing THEN SeedRng(a.seed, rng) ELSE rng
    /\ UNCHANGED <<core, last, earlier>>

Running == pc = "solving" /\ Len(trace.invocations) = 1
Solver == trace.invocations[1]
Finished == frame.converged \/ frame.nit >= Solver.maxiter

\* One iteration of minimize: evaluate around the current point, move downhill.
LocalIteration ==
    /\ Running /\ Solver.solver = "minimize" /\ ~Finished
    /\ LET start == IF frame.nit = 0
                    THEN [i \in 1..Len(Solver.x0) |-> Clip(Solver.x0[i], Solver.bounds[i])]
                    ELSE frame.cur
           cands == LocalCandidates(start, Solver.bounds)
           best  == ArgMin(core, frame, cands, 1, start, 0)
       IN  /\ frame' = [frame EXCEPT !.cur = best, !.nit = @ + 1, !.converged = (best = start)]
           /\ trace' = [trace EXCEPT !.evals = @ \cup Evaluations(core, frame, cands),
                                     !.integrateCalls = @ + Len(cands)]
    /\ UNCHANGED <<core, last, pc, rng, ret, earlier>>

\* minimize refuses an x0 of more than one dimension (older releases flatten it:
\* then LocalIteration runs instead).
LocalRejectsX0 ==
    /\ Running /\ Solver.solver = "minimize" /\ Solver.x0ndim > 1 /\ frame.nit = 0
    /\ pc' = "returned"
    /\ ret' = [kind |-> "raise", exc |-> "ValueError", by |-> "minimize", result |-> NoResult]
    /\ UNCHANGED <<core, last, frame, rng, trace, earlier>>

\* One iteration of dual_annealing: draw a point from the process-wide generator,
\* keep the better of it and the current one.
GlobalIteration ==
    /\ Running /\ Solver.solver = "dual_annealing" /\ ~Finished
    /\ LET cand  == DrawPoint(Solver.bounds, rng, 1, <<>>)
           cands == IF frame.nit = 0 THEN <<cand>> ELSE <<frame.cur, cand>>
           best  == ArgMin(core, frame, cands, 1, cand, 0)
       IN  /\ frame' = [frame EXCEPT !.cur = best, !.nit = @ + 1]
           /\ trace' = [trace EXCEPT !.evals = @ \cup Evaluations(core, frame, <<cand>>),
                                     !.integrateCalls = @ + 1]
           /\ rng' = AdvanceRng(rng, Len(Solver.bounds))
    /\ UNCHANGED <<core, last, pc, ret, earlier>>

\* The solver returns its OptimizeResult and seek returns it.
SeekReturn ==
    /\ Running /\ Finished
    /\ LET res == OptimizeResult(frame.cur,
                                 Objective(core, frame.scalar_compat, frame.x0_is_scalar, frame.cur),
                                 frame.converged \/ Solver.solver = "dual_annealing",
                                 frame.nit)
       IN  /\ ret' = [kind |-> "return", exc |-> "", by |-> Solver.solver,
                      result |-> SeekResult(res)]
           /\ trace' = [trace EXCEPT !.solverReturns = @ + 1, !.solverResult = res]
    /\ pc' = "returned"
    /\ UNCHANGED <<core, last, frame, rng, earlier>>

\* The caller goes on after a seek call, dropping the result.
CallerContinue ==
    /\ pc = "returned"
    /\ pc' = "idle"
    /\ ret' = NoRet /\ trace' = NoTrace /\ frame' = NoFrame
    /\ UNCHANGED <<core, last, rng, earlier>>

\* The caller goes on, keeping this call's arguments and outcome for comparison.
CallerKeeps ==
    /\ pc = "returned"
    /\ ~earlier.set
    /\ earlier' = [set |-> TRUE, args |-> frame.args, core |-> core, ret |-> ret,
                   entry_rng |-> frame.entry_rng, invocations |-> trace.invocations,
                   x0_is_scalar |-> frame.x0_is_scalar]
    /\ pc' = "idle"
    /\ ret' = NoRet /\ trace' = NoTrace /\ frame' = NoFrame
    /\ UNCHANGED <<core, last, rng>>

----------------------------------------------------------------------------
(* integrate, constraint_report and Diagnostics.report as calls: a caller-   *)
(* supplied function may raise, and a call leaves the instance in some state *)

MaxDiagFields == 2      \* longest list of fields given to Diagnostics.report

\* The first caller-supplied function that raises ends the call: the exception
\* propagates, nothing is caught.
FieldsRaise(fs, s) == \E i \in DOMAIN fs : FieldFnRaises(fs[i].func, s)
ConstraintsRaise(cs, s) == \E i \in DOMAIN cs : ConstraintFnRaises(cs[i].func, s)

\* The instance after integrate / constraint_report: neither assigns an attribute
\* of self nor changes its lists, whether it returns or raises.
SelfAfterIntegrate(c, s) == c
SelfAfterConstraintReport(c, s) == c

\* Mutant: the loop takes the fields out of the list it was given.
ArgAfterReportConsumed(fs, s) == <<>>

\* The list given to Diagnostics.report, after the call: the loop only reads it,
\* the reports go to the new list `out`.
ArgAfterReport(fs, s) == fs

\* The results of the calls before are still held when they were made on the
\* same state, without an exception, under the coefficients the instance has now.
Holds(op, s) ==
    /\ last.op = op /\ last.exc = "" /\ last.state = s
    /\ "integrate" \in last.held =>
          /\ last.safety_lambda = core.safety_lambda
          /\ last.occam_lambda = core.occam_lambda

Raised(op, s) == [NoCall EXCEPT !.op = op, !.state = s, !.exc = "AttributeError"]

\* core.integrate(s)
CallIntegrate(s) ==
    /\ pc = "idle"
    /\ last' = IF FieldsRaise(core.fields, s) \/ ConstraintsRaise(core.constraints, s)
               THEN Raised("integrate", s)
               ELSE [NoCall EXCEPT !.op = "integrate", !.state = s,
                                   !.safety_lambda = core.safety_lambda,
                                   !.occam_lambda = core.occam_lambda,
                                   !.value = Integrate(core, s),
                                   !.held = {"integrate"}]
    /\ core' = SelfAfterIntegrate(core, s)
    /\ UNCHANGED <<pc, frame, rng, trace, ret, earlier>>

\* core.constraint_report(s), after integrate(s) or on its own
CallConstraintReport(s) ==
    /\ pc = "idle"
    /\ last' = IF ConstraintsRaise(core.constraints, s)
               THEN Raised("constraint_report", s)
               ELSE [(IF Holds("integrate", s) THEN last ELSE [NoCall EXCEPT !.state = s])
                        EXCEPT !.op = "constraint_report",
                               !.report = ConstraintReport(core, s),
                               !.held = @ \cup {"constraint_report"}]
    /\ core' = SelfAfterConstraintReport(core, s)
    /\ UNCHANGED <<pc, frame, rng, trace, ret, earlier>>

\* Diagnostics.report(fs, s), after constraint_report(s) or on its own; `own`
\* says that the list given is the instance's own list, core.fields.
CallDiagnosticsReport(fs, s, own) ==
    /\ pc = "idle"
    /\ own => fs = core.fields
    /\ last' = IF FieldsRaise(fs, s)
               THEN Raised("diagnostics_report", s)
               ELSE [(IF Holds("constraint_report", s) THEN last ELSE [NoCall EXCEPT !.state = s])
                        EXCEPT !.op = "diagnostics_report",
                               !.fields = fs,
                               !.fieldReports = DiagnosticsReport(fs, s),
                               !.held = @ \cup {"diagnostics_report"}]
    /\ core' = IF own THEN [core EXCEPT !.fields = ArgAfterReport(fs, s)] ELSE core
    /\ UNCHANGED <<pc, frame, rng, trace, ret, earlier>>

\* The caller drops the results it holds.
CallerForgets ==
    /\ pc = "idle"
    /\ last # NoCall
    /\ last' = NoCall
    /\ UNCHANGED <<core, pc, frame, rng, trace, ret, earlier>>

----------------------------------------------------------------------------
(* Specifications *)

\* The instances seek is explored on.
SeekCores ==
    { MaatCore(<<[name |-> "Harmony", func |-> "dissonance", weight |-> 1]>>,
               <<[name |-> "Respect", func |-> "respect", weight |-> 1]>>, sl, ol) :
        sl \in {1, 2}, ol \in OccamLambdas }

Start(cores, rngs) ==
    /\ core \in cores
    /\ rng \in rngs
    /\ last = NoCall
    /\ pc = "idle"
    /\ frame = NoFrame
    /\ trace = NoTrace
    /\ ret = NoRet
    /\ earlier = NoEarlier

\* integrate and constraint_report on any instance, with the caller changing the
\* coefficients in between (no action here reads the generator).
Init == Start(Cores, {0})

Next ==
    \/ \E s \in States : DoIntegrate(s)
    \/ \E s \in States : DoConstraintReport(s)
    \/ \E v \in SafetyLambdas : SetSafetyLambda(v)
    \/ \E v \in OccamLambdas : SetOccamLambda(v)

Spec == Init /\ [][Next]_vars

\* One seek call after another, over every shape of x0 and bounds; the generator
\* starts in any state (it is seeded from the system's entropy).
InitSeek == Start(SeekCores, RngStates)

NextSeek ==
    \/ \E a \in SeekArgs : SeekEnter(a)
    \/ LocalIteration
    \/ LocalRejectsX0
    \/ GlobalIteration
    \/ SeekReturn
    \/ CallerContinue

SpecSeek == InitSeek /\ [][NextSeek]_vars

\* A reflection loop: seek calls interleaved with changes of the coefficients,
\* one earlier call kept for comparison.
NextReentry ==
    \/ \E a \in ReentryArgs : SeekEnter(a)
    \/ LocalIteration
    \/ GlobalIteration
    \/ SeekReturn
    \/ CallerContinue
    \/ CallerKeeps
    \/ \E v \in {1, 2} : SetSafetyLambda(v)
    \/ \E v \in OccamLambdas : SetOccamLambda(v)

SpecReentry == InitSeek /\ [][NextReentry]_vars

\* Starting points: seek calls that differ in the values of x0, in both modes,
\* one earlier call kept for comparison.
StartArgs ==
    { SeekCall(x0, 0, ua, <<<<0, 64>>>>, MaxIter, sd, TRUE) :
        x0 \in {BareNumber(v) : v \in {16, 48}} \cup {ArrayLike(1, <<v>>) : v \in {16, 48}},
        ua \in BOOLEAN,
        sd \in {NoSeed, Seed(1)} }

NextStart ==
    \/ \E a \in StartArgs : SeekEnter(a)
    \/ LocalIteration
    \/ GlobalIteration
    \/ SeekReturn
    \/ CallerContinue
    \/ CallerKeeps

SpecStart == InitSeek /\ [][NextStart]_vars

\* Diagnostics: the three reporting calls on instances whose functions may raise,
\* seek calls in between, and the caller changing safety_lambda.
DiagFields ==
    { [name |-> "Gain", func |-> "val",        weight |-> -2],
      [name |-> "Cost", func |-> "complexity", weight |-> 3] }

DiagConstraints ==
    { [name |-> "Respect", func |-> "respect", weight |-> 1],
      [name |-> "Budget",  func |-> "budget",  weight |-> 2] }

\* A state that satisfies Respect, one that violates it, and one that violates it
\* and has no complexity attribute (Cost and Budget raise on it).
DiagStates ==
    {s \in States : /\ s.dissonance = 0
                    /\ s.val \in {32, 40}
                    /\ s.val = 32 => s.hasComplexity}

DiagCores ==
    { MaatCore(fs, cs, sl, ol) :
        fs \in SeqsUpTo(DiagFields, MaxDiagFields),
        cs \in SeqsUpTo(DiagConstraints, MaxConstraints),
        sl \in {1, 2},
        ol \in OccamLambdas }

\* One-iteration seek calls in both modes.  The global one is seeded, and its one
\* draw leaves the generator in the state InitDiag starts it in.
DiagSeekArgs ==
    { SeekCall(BareNumber(40), 0, ua, <<<<0, 64>>>>, 1, Seed(0), TRUE) : ua \in BOOLEAN }

InitDiag == Start(DiagCores, {NextRng(0)})

NextDiag ==
    \/ \E s \in DiagStates : CallIntegrate(s)
    \/ \E s \in DiagStates : CallConstraintReport(s)
    \/ \E s \in DiagStates : CallDiagnosticsReport(core.fields, s, TRUE)
    \/ \E fs \in SeqsUpTo(DiagFields, MaxDiagFields), s \in DiagStates :
          CallDiagnosticsReport(fs, s, FALSE)
    \/ CallerForgets
    \/ \E v \in {1, 2} : SetSafetyLambda(v)
    \/ \E a \in DiagSeekArgs : last = NoCall /\ SeekEnter(a)
    \/ LocalIteration
    \/ GlobalIteration
    \/ SeekReturn
    \/ CallerContinue

SpecDiag == InitDiag /\ [][NextDiag]_vars

----------------------------------------------------------------------------
(* Properties of integrate and constraint_report (specification Spec) *)

\* The sum of f[x] over the finite set S.
RECURSIVE SumOver(_, _)
SumOver(S, f) ==
    IF S = {} THEN 0
    ELSE LET x == CHOOSE y \in S : TRUE
         IN  f[x] + SumOver(S \ {x}, f)

Margin(c, s) == ApplyConstraintFn(c.func, s)
Depth(c, s) == IF Margin(c, s) < 0 THEN -Margin(c, s) ELSE 0

\* sum over fields of func(state) * weight, over Den
FieldSum(fs, s) ==
    SumOver(DOMAIN fs, [i \in DOMAIN fs |-> ApplyFieldFn(fs[i].func, s) * fs[i].weight])

\* sum over the constraints in I of safety_lambda * weight * max(0, -margin)^2, over Den * Den
PenaltySum(cs, I, sl, s) ==
    SumOver(I, [i \in I |-> sl * cs[i].weight * Depth(cs[i], s) * Depth(cs[i], s)])

Violated(cs, s) == {i \in DOMAIN cs : Margin(cs[i], s) < 0}

Integrated == last.op = "integrate"

\* Two integrate calls in a row (the caller may change coefficients in between).
TwoIntegrations == last.op = "integrate" /\ last'.op = "integrate" /\ last' # last
SameCoefficients ==
    /\ last'.safety_lambda = last.safety_lambda
    /\ last'.occam_lambda = last.occam_lambda

\* C1: integrate(state) = sum of func(state) * weight over the fields
\*     + occam_lambda * complexity(state) (0 without a complexity attribute)
\*     + sum of safety_lambda * weight * max(0, -margin)^2 over the constraints.
C1_IntegrateFormula ==
    Integrated =>
        last.value =
            (FieldSum(core.fields, last.state)
             + last.occam_lambda
               * (IF last.state.hasComplexity THEN last.state.complexity ELSE 0)) * Den
            + PenaltySum(core.constraints, DOMAIN core.constraints,
                         last.safety_lambda, last.state)

\* integrate has run on a state with a complexity, with two different fields of
\* non-zero value, two constraints, a counted violation and both coefficients in
\* play.
C1_Witness ==
    /\ Integrated
    /\ Len(core.fields) = 2 /\ core.fields[1] # core.fields[2]
    /\ \A i \in DOMAIN core.fields : FieldValue(core.fields[i], last.state) # 0
    /\ Len(core.constraints) = 2
    /\ last.state.hasComplexity /\ last.occam_lambda # 0
    /\ PenaltySum(core.constraints, DOMAIN core.constraints,
                  last.safety_lambda, last.state) > 0

\* C2 as claimed: with at least one violated constraint, integrate(state) is
\*     strictly increasing in safety_lambda (all else fixed).
C2_Original ==
    [][ ( /\ TwoIntegrations
          /\ last'.state = last.state
          /\ last'.occam_lambda = last.occam_lambda
          /\ last.safety_lambda < last'.safety_lambda
          /\ Violated(core.constraints, last.state) # {} )
        => last.value < last'.value ]_vars

\* C2 as amended: integrate(state) is strictly increasing in safety_lambda when
\*     the weighted violation, sum of weight * max(0, -margin)^2, is positive.
C2_IncreasingInSafetyLambda ==
    [][ ( /\ TwoIntegrations
          /\ last'.state = last.state
          /\ last'.occam_lambda = last.occam_lambda
          /\ last.safety_lambda < last'.safety_lambda
          /\ PenaltySum(core.constraints, DOMAIN core.constraints, 1, last.state) > 0 )
        => last.value < last'.value ]_vars

\* integrate has run on a state of positive weighted violation and the caller has
\* raised safety_lambda since: the next integrate of that state is the comparison.
C2_Witness ==
    /\ Integrated
    /\ PenaltySum(core.constraints, DOMAIN core.constraints, 1, last.state) > 0
    /\ core.safety_lambda > last.safety_lambda
    /\ core.occam_lambda = last.occam_lambda
    /\ Integrate(core, last.state) > last.value

SameFieldValues(s, t) ==
    \A i \in DOMAIN core.fields :
        ApplyFieldFn(core.fields[i].func, s) = ApplyFieldFn(core.fields[i].func, t)

ComplexityOf(s) == IF s.hasComplexity THEN s.complexity ELSE 0

\* C3 as claimed: of two states with identical field values and occam_lambda > 0,
\*     the one of lower complexity has the strictly lower integrate value.
C3_Original ==
    [][ ( /\ TwoIntegrations /\ SameCoefficients
          /\ last.occam_lambda > 0
          /\ SameFieldValues(last.state, last'.state)
          /\ ComplexityOf(last.state) < ComplexityOf(last'.state) )
        => last.value < last'.value ]_vars

\* C3 as amended: the same, for two states that also have the same total
\*     constraint penalty.
C3_OccamPrefersSimpler ==
    [][ ( /\ TwoIntegrations /\ SameCoefficients
          /\ last.occam_lambda > 0
          /\ SameFieldValues(last.state, last'.state)
          /\ PenaltySum(core.constraints, DOMAIN core.constraints,
                        last.safety_lambda, last.state)
             = PenaltySum(core.constraints, DOMAIN core.constraints,
                          last.safety_lambda, last'.state)
          /\ ComplexityOf(last.state) < ComplexityOf(last'.state) )
        => last.value < last'.value ]_vars

\* integrate has run, with occam_lambda > 0, on the simpler of two states that
\* agree on every field and on the penalty, the penalty being nonzero.
C3_Witness ==
    /\ Integrated /\ last.occam_lambda > 0 /\ core.occam_lambda = last.occam_lambda
    /\ core.safety_lambda = last.safety_lambda
    /\ Len(core.fields) >= 1
    /\ \E t \in States :
          /\ SameFieldValues(last.state, t)
          /\ ComplexityOf(last.state) < ComplexityOf(t)
          /\ PenaltySum(core.constraints, DOMAIN core.constraints, last.safety_lambda, t)
             = PenaltySum(core.constraints, DOMAIN core.constraints,
                          last.safety_lambda, last.state)
          /\ PenaltySum(core.constraints, DOMAIN core.constraints, last.safety_lambda, t) # 0

\* ok then bad: `last` is integrate(ok) with every margin >= 0, `last'` is
\* integrate(bad), under occam_lambda = 0 and unchanged coefficients.
OkThenBad ==
    /\ TwoIntegrations /\ SameCoefficients
    /\ last.occam_lambda = 0
    /\ Violated(core.constraints, last.state) = {}
    /\ Violated(core.constraints, last'.state) # {}

\* What C4 says of the violated constraint i of bad: the satisfied state carries
\* no penalty, and integrate(bad) - integrate(ok) >= safety_lambda * w * d^2
\* - (field sum of ok - field sum of bad), so bad is above ok when that is positive.
C4Bound(i) ==
    LET cs    == core.constraints
        term  == PenaltySum(cs, {i}, last.safety_lambda, last'.state)
        fdiff == (FieldSum(core.fields, last.state) - FieldSum(core.fields, last'.state)) * Den
    IN  /\ last.value = FieldSum(core.fields, last.state) * Den
        /\ last'.value - last.value >= term - fdiff
        /\ (term > fdiff => last'.value > last.value)

\* C4 as claimed: with occam_lambda = 0, for every state ok with all margins >= 0
\*     and every state bad in which a constraint of weight w has margin -d < 0,
\*     integrate(bad) - integrate(ok) >= safety_lambda * w * d^2
\*     - (field sum of ok - field sum of bad), and ok has zero penalty.
C4_Original ==
    [][ OkThenBad => \A i \in Violated(core.constraints, last'.state) : C4Bound(i) ]_vars

\* C4 as amended: the same bound holds for a violated constraint when the penalties of
\*     the other constraints violated in bad sum to >= 0 (as they do when
\*     safety_lambda >= 0 and no weight is negative).
C4_PenaltyBound ==
    [][ OkThenBad =>
          \A i \in Violated(core.constraints, last'.state) :
              PenaltySum(core.constraints, Violated(core.constraints, last'.state) \ {i},
                         last.safety_lambda, last'.state) >= 0
              => C4Bound(i) ]_vars

\* integrate(ok) has run under occam_lambda = 0 and some state violates two
\* constraints whose penalties are both positive: the next integrate compares.
C4_Witness ==
    /\ Integrated /\ last.occam_lambda = 0 /\ core.occam_lambda = 0
    /\ core.safety_lambda = last.safety_lambda
    /\ Violated(core.constraints, last.state) = {}
    /\ last.value = FieldSum(core.fields, last.state) * Den
    /\ \E bad \in States :
          /\ Cardinality(Violated(core.constraints, bad)) >= 2
          /\ \A i \in Violated(core.constraints, bad) :
                PenaltySum(core.constraints, {i}, last.safety_lambda, bad) > 0
          /\ Integrate(core, bad) > last.value

ReportMade == last.op = "constraint_report"

\* What C5 says of every record but the hint's magnitude: record i is constraint
\* i's name and margin, with "OK" and no hint when margin >= 0, "VIOLATION" and a
\* hint naming the constraint when margin < 0.
C5Records ==
    /\ Len(last.report) = Len(core.constraints)
    /\ \A i \in DOMAIN last.report :
          LET r == last.report[i]
              m == Margin(core.constraints[i], last.state)
          IN  /\ r.constraint = core.constraints[i].name
              /\ r.margin = m
              /\ (m >= 0 => r.status = "OK" /\ r.hint.isNone)
              /\ (m < 0 => /\ r.status = "VIOLATION"
                           /\ ~r.hint.isNone
                           /\ r.hint.satisfy = core.constraints[i].name)

\* C5: record i of constraint_report(state) carries the name and the margin of
\*     constraint i; margin >= 0 gives status "OK" and no hint; margin < 0 gives
\*     status "VIOLATION" and a hint whose stated adjustment magnitude equals
\*     |margin| exactly.
C5_Original ==
    ReportMade =>
        /\ C5Records
        /\ \A i \in DOMAIN last.report :
              last.report[i].margin < 0 =>
                  last.report[i].hint.amount * Den = Abs(last.report[i].margin) * FourDecimals

\* What constraint_report does: the records are as C5 says, but the magnitude the
\* hint states is |margin| rounded to four decimal places, which can fall short
\* of |margin| by up to 0.00005 although the hint reads "by at least".
C5_ConstraintReport ==
    ReportMade =>
        /\ C5Records
        /\ \A i \in DOMAIN last.report :
              last.report[i].margin < 0 =>
                  2 * Abs(last.report[i].hint.amount * Den
                          - Abs(last.report[i].margin) * FourDecimals) <= Den

\* constraint_report has run on a state that violates one constraint by an amount
\* four decimals cannot state and satisfies another.
C5_Witness ==
    /\ ReportMade
    /\ Len(last.report) = MaxConstraints
    /\ \E i, j \in DOMAIN last.report :
          /\ last.report[i].status = "VIOLATION"
          /\ last.report[i].hint.amount * Den # Abs(last.report[i].margin) * FourDecimals
          /\ last.report[j].status = "OK"

----------------------------------------------------------------------------
(* Properties of seek (specifications SpecSeek and SpecReentry) *)

InCall == pc \in {"solving", "returned"}
Args == frame.args
NOfX0 == Len(Args.x0.vals)          \* N: the number of elements of x0
Returned == pc = "returned" /\ ret.kind = "return"

\* Every state_fn call of the running call passes a plain real number.
AllCallsScalar ==
    \A e \in trace.evals : e.arg.kind = "float" /\ e.arg.x = <<e.x[1]>>

\* Every state_fn call of the running call passes the full point, N reals in order.
AllCallsVector ==
    \A e \in trace.evals : e.arg.kind = "ndarray" /\ e.arg.x = e.x /\ Len(e.x) = NOfX0

\* C6 as claimed: seek is in scalar mode exactly when x0 is a bare number or has
\*     exactly one element; then state_fn always receives a plain real, and
\*     otherwise always the full point of N reals.
C6_Original ==
    InCall =>
        IF Args.x0.bare \/ Args.x0.ndim = 0 \/ Len(Args.x0.vals) = 1
        THEN AllCallsScalar
        ELSE AllCallsVector

\* C6 as amended: seek is in scalar mode exactly when scalar_compat is set (the
\*     default) and x0 is a bare number, a 0-d array or a flat sequence of exactly
\*     one element; then state_fn always receives a plain real, and otherwise
\*     always the full point of N reals.
C6_CallingConvention ==
    InCall =>
        IF /\ Args.scalar_compat
           /\ \/ Args.x0.bare
              \/ Args.x0.ndim = 0
              \/ (Args.x0.ndim = 1 /\ Len(Args.x0.vals) = 1)
        THEN AllCallsScalar
        ELSE AllCallsVector

\* A call with a one-element list as x0 has returned after the solver called the
\* state function with plain reals.
C6_Witness ==
    /\ Returned
    /\ ~Args.x0.bare /\ Args.x0.ndim = 1 /\ Len(Args.x0.vals) = 1 /\ Args.scalar_compat
    /\ trace.evals # {}
    /\ AllCallsScalar

\* C7: the solver is reached only with non-empty bounds of length N or 1; a single
\*     pair with N > 1 reaches it as N copies; empty bounds or another mismatch
\*     raise ValueError before the solver, state_fn or integrate is called.
C7_BoundsValidation ==
    InCall =>
        LET L == Len(Args.bounds)
        IN  /\ trace.invocations # <<>> => L > 0 /\ (L = NOfX0 \/ L = 1)
            /\ (L = 1 /\ NOfX0 > 1) =>
                  /\ Len(trace.invocations) = 1
                  /\ trace.invocations[1].bounds = [i \in 1..NOfX0 |-> Args.bounds[1]]
            /\ (L >= 1 /\ L = NOfX0) =>
                  /\ Len(trace.invocations) = 1
                  /\ trace.invocations[1].bounds = Args.bounds
            /\ (L = 0 \/ (L # NOfX0 /\ ~(L = 1 /\ NOfX0 > 1))) =>
                  /\ pc = "returned"
                  /\ ret.kind = "raise" /\ ret.exc = "ValueError" /\ ret.by = "seek"
                  /\ trace.invocations = <<>>
                  /\ trace.evals = {}
                  /\ trace.integrateCalls = 0

\* A call whose two bound pairs do not match its one-element x0 has raised.
C7_Witness ==
    /\ pc = "returned" /\ ret.kind = "raise" /\ ret.by = "seek"
    /\ Len(Args.bounds) = 2 /\ NOfX0 = 1

\* The bounds of the call are valid: non-empty, of length N or a single pair.
ValidBounds ==
    Len(Args.bounds) >= 1 /\ NOfX0 >= 1 /\ (Len(Args.bounds) = NOfX0 \/ Len(Args.bounds) = 1)

\* The same call on the same instance as the earlier call the caller kept.
SameCallAsEarlier ==
    /\ pc = "returned"
    /\ earlier.set
    /\ earlier.args = Args
    /\ earlier.core = core

\* Every objective evaluation of the running call is integrate of state_fn's state
\* under the coefficients the instance has now.
EvaluationsAreCurrent ==
    \A e \in trace.evals :
        /\ e.safety_lambda = core.safety_lambda
        /\ e.occam_lambda = core.occam_lambda
        /\ e.value = Integrate(core, StateFn(e.arg))

\* C8 as claimed: the outcome of a seek call depends only on its arguments and on
\*     the instance's current fields, constraints and coefficients, whatever calls
\*     and coefficient changes came before; and every objective evaluation uses
\*     the current coefficients.
C8_Original ==
    /\ SameCallAsEarlier => ret = earlier.ret
    /\ EvaluationsAreCurrent

\* C9: two global-mode calls with the same non-None seed, the same arguments and
\*     the same instance configuration return the same result, whatever calls
\*     were made before either.
C9_SeededGlobalIsReproducible ==
    ( /\ SameCallAsEarlier
      /\ Args.use_annealing
      /\ ~Args.seed.isNone )
    => ret = earlier.ret

\* A seeded global-mode call has returned, the caller holds an earlier call with
\* the same arguments on the same configuration, and the two calls found the
\* generator in different states (the calls before them differed).
C9_Witness ==
    /\ SameCallAsEarlier /\ Returned
    /\ Args.use_annealing /\ ~Args.seed.isNone
    /\ earlier.entry_rng # frame.entry_rng
    /\ ret.result.nit = MaxIter
    /\ ret = earlier.ret

\* C10: a call that passes bounds validation invokes exactly one solver, once:
\*     the global one when use_annealing is set, the local one otherwise, on
\*     integrate composed with state_fn, under the validated bounds and the
\*     iteration cap; and seek returns the solver's result as it is.
C10_OneSolverPassThrough ==
    /\ Len(trace.invocations) <= 1
    /\ trace.solverReturns <= 1
    /\ (InCall /\ ValidBounds) =>
          /\ Len(trace.invocations) = 1
          /\ trace.invocations[1].solver =
                (IF Args.use_annealing THEN "dual_annealing" ELSE "minimize")
          /\ trace.invocations[1].bounds =
                (IF Len(Args.bounds) = NOfX0 THEN Args.bounds
                 ELSE [i \in 1..NOfX0 |-> Args.bounds[1]])
          /\ trace.invocations[1].maxiter = Args.maxiter
          /\ frame.nit <= Args.maxiter
          /\ \A e \in trace.evals : e.value = Integrate(core, StateFn(e.arg))
    /\ Returned =>
          /\ ValidBounds
          /\ trace.solverReturns = 1
          /\ ret.by = trace.invocations[1].solver
          /\ ret.result = trace.solverResult
    /\ (pc = "returned" /\ ValidBounds /\ ret.kind = "raise") =>
          ret.by = trace.invocations[1].solver

\* A global-mode call has returned the solver's result after MaxIter iterations.
C10_Witness ==
    /\ Returned
    /\ Args.use_annealing
    /\ ret.by = "dual_annealing"
    /\ ret.result.nit = MaxIter /\ MaxIter >= 2
    /\ ret.result = trace.solverResult

----------------------------------------------------------------------------
(* Properties of Diagnostics.report and of the three reporting calls together *)
(* (specification SpecDiag) *)

DiagnosticsHeld == "diagnostics_report" \in last.held

\* C11: Diagnostics.report(fields, state) returns one FieldReport per input field,
\*     in input order: report i carries field i's name and weight, its raw_value
\*     is func(state), and weighted_value = raw_value * weight exactly.
C11_DiagnosticsReport ==
    DiagnosticsHeld =>
        /\ Len(last.fieldReports) = Len(last.fields)
        /\ \A i \in DOMAIN last.fields :
              LET f == last.fields[i]
                  r == last.fieldReports[i]
              IN  /\ r.name = f.name
                  /\ r.weight = f.weight
                  /\ r.raw_value = ApplyFieldFn(f.func, last.state)
                  /\ r.weighted_value = r.raw_value * r.weight

\* Diagnostics.report has returned for two different fields whose weighted values
\* differ from their raw values.
C11_Witness ==
    /\ DiagnosticsHeld
    /\ Len(last.fields) = 2
    /\ last.fields[1].name # last.fields[2].name
    /\ \A i \in DOMAIN last.fieldReports :
          last.fieldReports[i].weighted_value # last.fieldReports[i].raw_value

\* A step in which the caller, between calls, assigns a coefficient: nothing else
\* moves.
CallerAssigns ==
    /\ pc = "idle"
    /\ UNCHANGED <<last, pc, frame, rng, trace, ret, earlier>>

\* C12: integrate, constraint_report and Diagnostics.report (and seek) leave the
\*     instance's fields list, constraints list, safety_lambda and occam_lambda
\*     unchanged, whether the call returns or a caller-supplied function raises;
\*     the coefficients change only when the caller assigns them.
C12_SideEffectFree ==
    [][ /\ core'.fields = core.fields
        /\ core'.constraints = core.constraints
        /\ (core' # core => CallerAssigns) ]_vars

\* Diagnostics.report was given the instance's own two fields and one of the
\* field functions raised.
C12_Witness ==
    /\ last.op = "diagnostics_report"
    /\ last.exc = "AttributeError"
    /\ Len(core.fields) = 2
    /\ FieldsRaise(core.fields, last.state)
    /\ core.constraints # <<>>

----------------------------------------------------------------------------
(* The starting point of the search (specification SpecStart) *)

SameShape(x, y) == x.bare = y.bare /\ x.ndim = y.ndim /\ Len(x.vals) = Len(y.vals)

\* The running call and the earlier call the caller kept differ at most in the
\* values of x0: same shape of x0, same other arguments, same instance.
SameButX0Values ==
    /\ InCall
    /\ earlier.set
    /\ SameShape(earlier.args.x0, Args.x0)
    /\ [earlier.args EXCEPT !.x0 = Args.x0] = Args
    /\ earlier.core = core

\* C13: in global mode seek hands the solver no starting point: x0 gives only the
\*     dimension count N and the scalar / vector convention, so two global-mode
\*     calls that differ only in the values of x0 hand the solver the same
\*     arguments (and, when seeded, get the same result); in local mode the solver
\*     is started at x0.
C13_GlobalIgnoresX0Values ==
    /\ (InCall /\ ValidBounds /\ Args.use_annealing) =>
          /\ trace.invocations[1].solver = "dual_annealing"
          /\ trace.invocations[1].x0 = <<>>
          /\ Len(trace.invocations[1].bounds) = NOfX0
    /\ (SameButX0Values /\ Args.use_annealing) =>
          /\ trace.invocations = earlier.invocations
          /\ frame.x0_is_scalar = earlier.x0_is_scalar
          /\ (Returned /\ ~Args.seed.isNone) => ret = earlier.ret
    /\ (InCall /\ ValidBounds /\ ~Args.use_annealing) =>
          /\ trace.invocations[1].solver = "minimize"
          /\ trace.invocations[1].x0 = Args.x0.vals

\* A seeded global-mode call has returned; the caller kept an earlier call that
\* differs from it in the value of x0 only, and had started from another state of
\* the generator.
C13_Witness ==
    /\ SameButX0Values /\ Returned
    /\ Args.use_annealing /\ ~Args.seed.isNone
    /\ earlier.args.x0.vals # Args.x0.vals
    /\ earlier.entry_rng # frame.entry_rng

----------------------------------------------------------------------------
(* The score rebuilt from the diagnostics (specification SpecDiag) *)

\* The caller holds integrate(s), constraint_report(s) and
\* Diagnostics.report(core.fields, s) of one state s under the coefficients the
\* instance has now.
AllThreeHeld ==
    /\ last.held = {"integrate", "constraint_report", "diagnostics_report"}
    /\ last.fields = core.fields
    /\ last.safety_lambda = core.safety_lambda
    /\ last.occam_lambda = core.occam_lambda

\* safety_lambda * weight_i * max(0, -margin_i)^2 for record i of the report
RecordPenalty(i) ==
    LET m == last.report[i].margin
        d == IF m < 0 THEN -m ELSE 0
    IN  last.safety_lambda * core.constraints[i].weight * d * d

WeightedSum ==
    SumOver(DOMAIN last.fieldReports,
            [i \in DOMAIN last.fieldReports |-> last.fieldReports[i].weighted_value])

\* C14: integrate(state) = the sum of weighted_value over
\*     Diagnostics.report(core.fields, state) + occam_lambda * complexity(state)
\*     + the sum over the records of constraint_report(state) of
\*     safety_lambda * weight_i * max(0, -margin_i)^2; an "OK" record contributes
\*     zero, and when every record is "OK" integrate(state) is the same under
\*     every safety_lambda.
C14_ScoreFromDiagnostics ==
    AllThreeHeld =>
        /\ Len(last.report) = Len(core.constraints)
        /\ last.value =
              (WeightedSum + last.occam_lambda * ComplexityOf(last.state)) * Den
              + SumOver(DOMAIN last.report, [i \in DOMAIN last.report |-> RecordPenalty(i)])
        /\ \A i \in DOMAIN last.report :
              last.report[i].status = "OK" => RecordPenalty(i) = 0
        /\ (\A i \in DOMAIN last.report : last.report[i].status = "OK") =>
              /\ last.value = (WeightedSum + last.occam_lambda * ComplexityOf(last.state)) * Den
              /\ \A v \in SafetyLambdas :
                    Integrate([core EXCEPT !.safety_lambda = v], last.state) = last.value

\* All three results are held for an instance of two fields and two constraints,
\* one record "OK" and one "VIOLATION", with a complexity term.
C14_Witness ==
    /\ AllThreeHeld
    /\ Len(core.fields) = 2 /\ core.fields[1] # core.fields[2]
    /\ Len(core.constraints) = 2
    /\ \E i, j \in DOMAIN last.report :
          /\ last.report[i].status = "OK"
          /\ last.report[j].status = "VIOLATION" /\ RecordPenalty(j) > 0
    /\ last.occam_lambda * ComplexityOf(last.state) > 0

\* All three results are held and every record is "OK", on an instance that has
\* constraints.
C14_WitnessAllOK ==
    /\ AllThreeHeld
    /\ core.constraints # <<>>
    /\ \A i \in DOMAIN last.report : last.report[i].status = "OK"
====
